---- MODULE Spec2Model ----
(***************************************************************************)
(* Chunked media upload, client-side merge and the merge edge function of  *)
(* the media service.                                                      *)
(*                                                                         *)
(* Two revisions of mediaService.uploadMediaFile are modelled:             *)
(*   "merge"  src/src/services/mediaService.ts:254-467                     *)
(*            chunks + retry + client-side download/merge/re-upload/remove *)
(*   "parts"  src/unnamed/part_003:43-175                                  *)
(*            chunks + retry, the parts are left in the store              *)
(* the merge handler of src/unnamed/part_009,                              *)
(* mediaService.deleteMediaFile (mediaService.ts:469-492), and the loading *)
(* of a media file by MediaPanel (src/unnamed/part_007:25-91).             *)
(*                                                                         *)
(* Sizes and offsets are counted in MiB: one element of a byte sequence    *)
(* stands for 1 MiB of the file, so CHUNK_SIZE is 5 and the threshold 50.  *)
(* Every await of the code is one step of the model; what runs between two *)
(* awaits is part of the step (the delay before a retry is folded into the *)
(* step of the failed attempt). The put of a chunk and the removal made by *)
(* deleteMediaFile are two steps each, the request issued and the request  *)
(* answered, so that requests in flight are part of the state.             *)
(*                                                                         *)
(* Spec        behaviours of one upload with up to MaxFaults failing       *)
(*             calls, for the file sizes FaultSizes                        *)
(* SpecSizes   behaviours of one upload with up to SizeFaults failing      *)
(*             calls, for every file size 0 .. THRESHOLD + MaxOver         *)
(* SpecDelete  behaviours of one deleteMediaFile call on a row with or     *)
(*             without a chunk manifest                                    *)
(* SpecTwo     behaviours of two concurrent uploads of one user to one     *)
(*             project within the same millisecond, no call failing        *)
(* SpecPanel   behaviours of a MediaPanel whose media changes up to        *)
(*             MaxChanges times, with overlapping loads                    *)
(* SpecReturns the behaviours of Spec in which every awaited call returns  *)
(***************************************************************************)
EXTENDS Integers, Sequences, FiniteSets, TLC

\* ------------------------------------------------------------ constants

\* const CHUNK_SIZE = 5 * 1024 * 1024 (in MiB)
CHUNK_SIZE == 5

\* if (file.size > 50 * 1024 * 1024) (in MiB)
THRESHOLD == 50

\* const MAX_RETRIES = 3
MAX_RETRIES == 3

\* ------------------------------------------------------------ bounds

\* file sizes run from 0 to THRESHOLD + MaxOver MiB
MaxOver == 6

\* at most MaxFaults object-store / metadata calls answer with an
\* injected error in one behaviour
MaxFaults == 3

\* at most SizeFaults calls answer with an injected error in a behaviour of
\* SpecSizes, which runs over every file size
SizeFaults == 1

\* the largest total_chunks of a row with a chunk manifest
MaxParts == 3

\* the media prop of the panel changes at most MaxChanges times
MaxChanges == 3

\* the upload calls of the model; Spec runs call 1 alone
Calls == {1, 2}

\* the ids deleteMediaFile is called with: the id of a row, and one of no row
DeleteIds == {1, 2}

Revisions == {"merge", "parts"}

FileSizes == 0 .. (THRESHOLD + MaxOver)

\* the sizes for which behaviours with failing calls are explored: an empty
\* file, a small one, one at the threshold, one just above it and the
\* largest one
FaultSizes == {0, 10, THRESHOLD, THRESHOLD + 1, THRESHOLD + MaxOver}

\* ------------------------------------------------------------ helpers

Min(a, b) == IF a < b THEN a ELSE b

\* Math.ceil(a / b) for integers a >= 0, b > 0
CeilDiv(a, b) == (a + b - 1) \div b

\* Math.round(num / den) for num >= 0, den > 0: floor(x + 1/2)
Round(num, den) == (2 * num + den) \div (2 * den)

\* the bytes of the File handed to call c: every byte is distinct and
\* carries the call that owns the file
SourceBytes(c, size) == [k \in 1 .. size |-> <<c, k>>]

\* Blob.slice(start, end): the bytes at offsets start .. end-1, both ends
\* clamped to the size of the blob
Slice(bytes, start, end) ==
  SubSeq(bytes, Min(start, Len(bytes)) + 1, Min(end, Len(bytes)))

RECURSIVE Concat(_)

\* mutant of Concat: the parts are joined last to first
ConcatReversed(parts) ==
  IF parts = <<>> THEN <<>> ELSE Concat(Tail(parts)) \o Head(parts)

\* new Blob(parts): the parts one after the other
Concat(parts) ==
  IF parts = <<>> THEN <<>> ELSE Head(parts) \o Concat(Tail(parts))

\* `${Date.now()}_${file.name}` under `${user.id}/${projectId}/`
FileNameWithPath(now, name) == <<"user", "project", now>> \o name

\* `${fileNameWithPath}.part${i}`
ChunkFileName(base, i) == base \o <<".part", i>>

\* mutant of ChunkCount: Math.floor in the place of Math.ceil
ChunkCountFloor(size) == size \div CHUNK_SIZE

\* const chunks = Math.ceil(file.size / CHUNK_SIZE)
ChunkCount(size) == CeilDiv(size, CHUNK_SIZE)

\* mutant of ChunkStart: the ranges start one unit late
ChunkStartOffByOne(i) == i * CHUNK_SIZE + 1

\* const start = i * CHUNK_SIZE
ChunkStart(i) == i * CHUNK_SIZE

\* const end = Math.min(start + CHUNK_SIZE, file.size)
ChunkEnd(i, size) == Min(ChunkStart(i) + CHUNK_SIZE, size)

\* if (file.size > 50 * 1024 * 1024)
UseChunks(size) == size > THRESHOLD

\* mutant of MayRetry: one attempt too many
MayRetryOffByOne(retries) == retries <= MAX_RETRIES

\* while (retries < MAX_RETRIES)
MayRetry(retries) == retries < MAX_RETRIES

\* ------------------------------------------------------------ state

VARIABLES
  st,       \* st[c]: the locals and position of upload call c
  store,    \* the "media" bucket: path -> bytes of the object at that path
  records,  \* the rows of media_files
  faults,   \* injected errors so far
  budget,   \* how many calls the environment may answer with an error
  mg,       \* the locals and position of the merge handler
  dl,       \* the locals and position of the deleteMediaFile call
  mp        \* the state of the MediaPanel component and of its loads

vars == <<st, store, records, faults, budget, mg, dl, mp>>

\* ------------------------------------------------------------ object store

\* mutant of UploadFails: a put on a taken path is not refused
UploadFailsOnFaultOnly(objs, path, upsert, fault) == fault

\* supabase.storage.from("media").upload(path, body, {upsert}): an error when
\* the call fails or when the path is taken and upsert is false
UploadFails(objs, path, upsert, fault) ==
  fault \/ (~upsert /\ path \in DOMAIN objs)

\* the bucket after upload(path, body, {upsert}): a call that answers with
\* an error has stored nothing
AfterUpload(objs, path, body, upsert, fault) ==
  IF UploadFails(objs, path, upsert, fault)
    THEN objs
    ELSE [p \in DOMAIN objs \cup {path} |-> IF p = path THEN body ELSE objs[p]]

\* supabase.storage.from("media").download(path): an error when the call
\* fails or no object is at path
DownloadFails(objs, path, fault) == fault \/ path \notin DOMAIN objs

\* the bucket after remove(paths): a failed call removes nothing
AfterRemove(objs, paths, fault) ==
  IF fault THEN objs ELSE [p \in DOMAIN objs \ paths |-> objs[p]]

\* the set of the elements of a sequence
Range(seq) == {seq[k] : k \in 1 .. Len(seq)}

\* ------------------------------------------------------------ locals of a call

\* onProgress(pct, stage)
Report(s, pct) == [s EXCEPT !.progress = Append(@, pct)]

\* the call's own record of the requests it issued and their answers
Log(s, entry) == [s EXCEPT !.ops = Append(@, entry)]

\* what the message of a thrown error says about the unit that failed:
\* nothing, the index of a chunk ("Failed to download chunk ${i}"), or the
\* file ("Failed to upload merged file")
NoUnit == [kind |-> "none", index |-> 0]
ChunkUnit(i) == [kind |-> "chunk", index |-> i]
FileUnit == [kind |-> "file", index |-> 0]

\* the message of the error thrown by s names `unit`
Names(s, unit) == [s EXCEPT !.errorUnit = unit]

\* throw: the promise rejects
Reject(s, err) == [s EXCEPT !.pc = "done", !.outcome = "rejected", !.error = err]

\* mutant of ThrowOrInsert: the check of uploadError is lost
ThrowOrInsertAlways(s) == [s EXCEPT !.pc = "insert"]

\* line 437 / part_003:149: if (uploadError) throw uploadError; else the
\* insert. What is thrown is the error object the storage client answered
\* the last put with; the chunk index went to console.error only (line 317)
ThrowOrInsert(s) ==
  IF s.uploadError THEN Reject(s, "upload") ELSE [s EXCEPT !.pc = "insert"]

\* after the chunk loop. merge: if (!uploadError && uploadedChunkPaths.length
\* > 0) start the client-side merge; parts: only a console.log
AfterChunkLoop(s) ==
  IF s.rev = "merge" /\ ~s.uploadError /\ Len(s.uploadedChunkPaths) > 0
    THEN [Report(s, 50) EXCEPT !.pc = "download", !.i = 0]
    ELSE ThrowOrInsert(s)

\* mutant of ChunkProgress: the share of the chunks still to be put
ChunkProgressRemaining(s) ==
  Round((s.chunks - s.i) * (IF s.rev = "merge" THEN 50 ELSE 100), s.chunks)

\* Math.round(((i + 1) / chunks) * 50) in the merging revision, * 100 in the
\* revision that keeps the parts
ChunkProgress(s) ==
  Round((s.i + 1) * (IF s.rev = "merge" THEN 50 ELSE 100), s.chunks)

\* the put of chunk i was acknowledged: push its path, report, next chunk
AfterChunkOk(s) ==
  LET t == [Report(s, ChunkProgress(s)) EXCEPT
              !.uploadedChunkPaths = Append(@, ChunkFileName(s.base, s.i)),
              !.chunkError = FALSE,
              !.retries = 0,
              !.i = s.i + 1]
  IN  IF t.i < t.chunks THEN t ELSE AfterChunkLoop(t)

\* mutant of AfterChunkError: the break after uploadError = chunkError is
\* lost and the loop goes on with the next chunk
AfterChunkErrorNoBreak(s) ==
  IF MayRetry(s.retries + 1)
    THEN [s EXCEPT !.retries = s.retries + 1, !.chunkError = TRUE]
    ELSE LET t == [s EXCEPT !.retries = 0, !.chunkError = FALSE,
                            !.uploadError = TRUE, !.i = s.i + 1]
         IN  IF t.i < t.chunks THEN t ELSE AfterChunkLoop(t)

\* mutant of AfterChunkError: when the attempts are used up the chunks put
\* so far are removed before the error is thrown
AfterChunkErrorCleanup(s) ==
  IF MayRetry(s.retries + 1)
    THEN [s EXCEPT !.retries = s.retries + 1, !.chunkError = TRUE]
    ELSE [s EXCEPT !.retries = s.retries + 1, !.chunkError = TRUE,
                   !.uploadError = TRUE, !.pc = "remove"]

\* an attempt for chunk i failed: retries++, and either another attempt
\* (after the delay) or uploadError = chunkError; break
AfterChunkError(s) ==
  IF MayRetry(s.retries + 1)
    THEN [s EXCEPT !.retries = s.retries + 1, !.chunkError = TRUE]
    ELSE AfterChunkLoop([s EXCEPT !.retries = s.retries + 1,
                                  !.chunkError = TRUE,
                                  !.uploadError = TRUE])

\* the body of chunk i: new Blob([file.slice(start, end)])
ChunkBlob(s) ==
  Slice(SourceBytes(s.id, s.size), ChunkStart(s.i), ChunkEnd(s.i, s.size))

\* after the single-shot retry loop: onProgress(95) in the merging revision,
\* onProgress(100) in the other, then line 437
AfterWholeLoop(s) ==
  ThrowOrInsert(Report(s, IF s.rev = "merge" THEN 95 ELSE 100))

\* an attempt of the single-shot upload answered
AfterWholeAttempt(s, err) ==
  IF ~err
    THEN AfterWholeLoop([s EXCEPT !.uploadError = FALSE])
    ELSE IF MayRetry(s.retries + 1)
      THEN [s EXCEPT !.retries = s.retries + 1, !.uploadError = TRUE]
      ELSE AfterWholeLoop([s EXCEPT !.retries = s.retries + 1,
                                    !.uploadError = TRUE])

\* the locals of call c before its first step
NewCall(c, rev, size, authed) ==
  [id |-> c, rev |-> rev, size |-> size, authed |-> authed,
   base |-> FileNameWithPath(1, <<"a">>),
   pc |-> "getUser", chunks |-> 0, i |-> 0, retries |-> 0,
   chunkError |-> FALSE, uploadError |-> FALSE,
   uploadedChunkPaths |-> <<>>, chunkBlobs |-> <<>>,
   progress |-> <<>>, ops |-> <<>>, inflight |-> {},
   outcome |-> "pending", error |-> "none", errorUnit |-> NoUnit,
   objectAtInsert |-> [present |-> FALSE, bytes |-> <<>>]]

\* the locals of a call for the file `name` that evaluates Date.now() as
\* `now`
NamedCall(c, rev, size, authed, now, name) ==
  [NewCall(c, rev, size, authed) EXCEPT !.base = FileNameWithPath(now, name)]

\* a call that is never made
NoCall(c) == [NewCall(c, "merge", 0, FALSE) EXCEPT !.pc = "idle"]

\* ------------------------------------------------------------ uploadMediaFile

\* one injected error more, if the call answered with one
Inject(fault) ==
  /\ fault => faults < budget
  /\ faults' = faults + (IF fault THEN 1 ELSE 0)
  /\ budget' = budget

\* mutant of NoUser: the check of the signed-in user is lost
NoUserIgnored(s) == FALSE

\* line 262 / part_003:51: if (!user)
NoUser(s) == ~s.authed

\* supabase.auth.getUser(), the not-authenticated check, the file name and
\* the choice between chunked and single-shot upload
GetUser(c) ==
  /\ st[c].pc = "getUser"
  /\ LET s == st[c] IN
       st' = [st EXCEPT ![c] =
         IF NoUser(s) THEN Reject(s, "User not authenticated")
         ELSE IF UseChunks(s.size)
           THEN [(IF s.rev = "merge" THEN Report(s, 0) ELSE s) EXCEPT
                   !.pc = "chunkUpload", !.chunks = ChunkCount(s.size)]
           ELSE [(IF s.rev = "merge" THEN Report(s, 0) ELSE s) EXCEPT
                   !.pc = "wholeUpload"]]
  /\ UNCHANGED <<store, records, faults, budget, mg, dl, mp>>

\* mutant of ChunkPutIssued: the put is not awaited, the loop goes on to
\* the next chunk while the request is in flight
ChunkPutNotAwaited(s) ==
  LET t == [s EXCEPT !.inflight = @ \cup {ChunkFileName(s.base, s.i)}]
  IN  IF s.i + 1 < s.chunks THEN [t EXCEPT !.i = s.i + 1]
                            ELSE [t EXCEPT !.pc = "chunkAwait"]

\* supabase.storage.from("media").upload(chunkFileName, chunkBlob, ...) was
\* called: the request is in flight and the call is suspended at the await
ChunkPutIssued(s) ==
  [s EXCEPT !.pc = "chunkAwait",
            !.inflight = @ \cup {ChunkFileName(s.base, s.i)}]

\* the put of chunk i is issued in the body of while (retries < MAX_RETRIES)
ChunkPut(c) ==
  /\ st[c].pc = "chunkUpload"
  /\ st' = [st EXCEPT ![c] = ChunkPutIssued(st[c])]
  /\ UNCHANGED <<store, records, faults, budget, mg, dl, mp>>

\* the put of chunk i (upsert: false) is answered, the await resumes, and
\* what follows the answer
ChunkUpload(c) ==
  /\ st[c].pc = "chunkAwait"
  /\ \E fault \in BOOLEAN :
       LET s    == st[c]
           path == ChunkFileName(s.base, s.i)
           err  == UploadFails(store, path, FALSE, fault)
           t    == [Log(s, [op |-> "put", path |-> path, ok |-> ~err])
                      EXCEPT !.pc = "chunkUpload", !.inflight = @ \ {path}]
       IN  /\ Inject(fault)
           /\ store' = AfterUpload(store, path, ChunkBlob(s), FALSE, fault)
           /\ st' = [st EXCEPT ![c] =
                       IF err THEN AfterChunkError(t) ELSE AfterChunkOk(t)]
  /\ UNCHANGED <<records, mg, dl, mp>>

\* one attempt to put the whole file (upsert: false)
WholeUpload(c) ==
  /\ st[c].pc = "wholeUpload"
  /\ \E fault \in BOOLEAN :
       LET s   == st[c]
           err == UploadFails(store, s.base, FALSE, fault)
           t   == Log(s, [op |-> "put", path |-> s.base, ok |-> ~err])
       IN  /\ Inject(fault)
           /\ store' = AfterUpload(store, s.base, SourceBytes(s.id, s.size),
                                   FALSE, fault)
           /\ st' = [st EXCEPT ![c] = AfterWholeAttempt(t, err)]
  /\ UNCHANGED <<records, mg, dl, mp>>

\* mutant of AfterDownloadOk: the cleanup of the parts runs before the
\* merged file is put
AfterDownloadOkCleanupFirst(s, data) ==
  LET n == Len(s.uploadedChunkPaths)
      t == [Report(s, 50 + Round((s.i + 1) * 25, n)) EXCEPT
              !.chunkBlobs = Append(@, data),
              !.i = s.i + 1]
  IN  IF t.i < n THEN t
      ELSE [Report(Report(t, 75), 80) EXCEPT !.pc = "remove"]

\* a chunk was downloaded: push it, report 50 + round((i+1)/n * 25), and
\* after the last one report 75 ("Merging file...") and 80 ("Uploading
\* merged file...")
AfterDownloadOk(s, data) ==
  LET n == Len(s.uploadedChunkPaths)
      t == [Report(s, 50 + Round((s.i + 1) * 25, n)) EXCEPT
              !.chunkBlobs = Append(@, data),
              !.i = s.i + 1]
  IN  IF t.i < n THEN t
      ELSE [Report(Report(t, 75), 80) EXCEPT !.pc = "mergedUpload"]

\* mutant of MergeFailed: the error of the merge step is only logged and the
\* call goes on to the cleanup
MergeFailedSwallowed(s) == [Report(s, 90) EXCEPT !.pc = "remove"]

\* catch (mergeErr) { throw new Error(`Merge operation failed: ...`) }
MergeFailed(s) == Reject(s, "Merge operation failed")

\* the merged upload was acknowledged: report 90 and go on to the cleanup
AfterMergedOk(s) == [Report(s, 90) EXCEPT !.pc = "remove"]

\* after remove(uploadedChunkPaths), failed (a warning) or not: report 95,
\* leave the try block and reach line 437
AfterCleanup(s) == ThrowOrInsert(Report(s, 95))

\* the row uploadMediaFile inserts; the columns of the chunk manifest are
\* not set and take their defaults (is_chunked false, the others NULL,
\* written 0 and <<>>)
NewRecord(s, id) ==
  [id |-> id, name |-> "a", storage_path |-> s.base, file_size |-> s.size,
   call |-> s.id,
   is_chunked |-> FALSE, total_chunks |-> 0, chunk_pattern |-> <<>>]

\* the insert was acknowledged: onProgress(100) in the merging revision,
\* return data
Resolve(s, objs) ==
  [(IF s.rev = "merge" THEN Report(s, 100) ELSE s) EXCEPT
     !.pc = "done", !.outcome = "resolved",
     !.objectAtInsert = IF s.base \in DOMAIN objs
                          THEN [present |-> TRUE, bytes |-> objs[s.base]]
                          ELSE [present |-> FALSE, bytes |-> <<>>]]

\* download(uploadedChunkPaths[i]) in the merge loop of the merging revision
Download(c) ==
  /\ st[c].pc = "download"
  /\ \E fault \in BOOLEAN :
       LET s    == st[c]
           path == s.uploadedChunkPaths[s.i + 1]
           err  == DownloadFails(store, path, fault)
           t    == Log(s, [op |-> "download", path |-> path, ok |-> ~err])
       IN  /\ Inject(fault)
           /\ st' = [st EXCEPT ![c] =
                       IF err THEN Names(MergeFailed(t), ChunkUnit(t.i))
                              ELSE AfterDownloadOk(t, store[path])]
  /\ UNCHANGED <<store, records, mg, dl, mp>>

\* upload(fileNameWithPath, new Blob(chunkBlobs), {upsert: true})
MergedUpload(c) ==
  /\ st[c].pc = "mergedUpload"
  /\ \E fault \in BOOLEAN :
       LET s   == st[c]
           err == UploadFails(store, s.base, TRUE, fault)
           t   == Log(s, [op |-> "put", path |-> s.base, ok |-> ~err])
       IN  /\ Inject(fault)
           /\ store' = AfterUpload(store, s.base, Concat(s.chunkBlobs),
                                   TRUE, fault)
           /\ st' = [st EXCEPT ![c] =
                       IF err THEN Names(MergeFailed(t), FileUnit)
                              ELSE AfterMergedOk(t)]
  /\ UNCHANGED <<records, mg, dl, mp>>

\* remove(uploadedChunkPaths); an error is only a warning
RemoveChunks(c) ==
  /\ st[c].pc = "remove"
  /\ \E fault \in BOOLEAN :
       LET s == st[c]
           t == Log(s, [op |-> "remove", path |-> s.uploadedChunkPaths,
                        ok |-> ~fault])
       IN  /\ Inject(fault)
           /\ store' = AfterRemove(store, Range(s.uploadedChunkPaths), fault)
           /\ st' = [st EXCEPT ![c] = AfterCleanup(t)]
  /\ UNCHANGED <<records, mg, dl, mp>>

\* from("media_files").insert({... storage_path, file_size}).select().single()
InsertRecord(c) ==
  /\ st[c].pc = "insert"
  /\ \E fault \in BOOLEAN :
       LET s == st[c]
           t == Log(s, [op |-> "insert", path |-> s.base, ok |-> ~fault])
       IN  /\ Inject(fault)
           /\ records' = IF fault THEN records
                         ELSE records \cup
                                {NewRecord(s, Cardinality(records) + 1)}
           /\ st' = [st EXCEPT ![c] =
                       IF fault THEN Reject(t, "insert")
                                ELSE Resolve(t, store)]
  /\ UNCHANGED <<store, mg, dl, mp>>

\* ------------------------------------------------------------ merge handler

\* the handler's record of the requests it issued and their answers
MergeLog(m, entry) == [m EXCEPT !.ops = Append(@, entry)]

\* catch (error): the answer { success: false } with status 500
MergeError(m) == [m EXCEPT !.pc = "done", !.resp = "error"]

\* a chunk was downloaded: chunks.push(new Uint8Array(arrayBuffer)), and
\* after the last one the merged array is built and put
MergeAfterDownloadOk(m, data) ==
  LET t == [m EXCEPT !.chunks = Append(@, data), !.i = m.i + 1]
  IN  IF t.i < t.totalChunks THEN t ELSE [t EXCEPT !.pc = "upload"]

\* mergedArray.set(chunk, offset) for every chunk in turn
MergedArray(chunks) == Concat(chunks)

\* Array.from({ length: totalChunks }, (_, i) => `...${fileName}.part${i}`)
MergeChunkPaths(m) == [k \in 1 .. m.totalChunks |-> ChunkFileName(m.base, k - 1)]

\* the handler before a request
IdleMerge ==
  [pc |-> "idle", base |-> <<>>, totalChunks |-> 0, fileSize |-> 0,
   i |-> 0, chunks |-> <<>>, ops |-> <<>>, resp |-> "none"]

\* a POST with { userId, projectId, fileName, totalChunks, fileSize } for
\* the parts an upload of the revision that keeps the parts has stored; the
\* request carries the name and the chunk count of that upload
MergeRequest(c) ==
  /\ mg.pc = "idle"
  /\ st[c].rev = "parts" /\ st[c].outcome = "resolved" /\ st[c].chunks > 0
  /\ mg' = [mg EXCEPT !.pc = "download", !.base = st[c].base,
                      !.totalChunks = st[c].chunks,
                      !.fileSize = st[c].size]
  /\ UNCHANGED <<st, store, records, faults, budget, dl, mp>>

\* download(`${userId}/${projectId}/${fileName}.part${i}`)
MergeDownload ==
  /\ mg.pc = "download"
  /\ \E fault \in BOOLEAN :
       LET path == ChunkFileName(mg.base, mg.i)
           err  == DownloadFails(store, path, fault)
           t    == MergeLog(mg, [op |-> "download", path |-> path, ok |-> ~err])
       IN  /\ Inject(fault)
           /\ mg' = IF err THEN MergeError(t)
                           ELSE MergeAfterDownloadOk(t, store[path])
  /\ UNCHANGED <<st, store, records, dl, mp>>

\* upload(finalPath, mergedBlob, {upsert: true})
MergeUpload ==
  /\ mg.pc = "upload"
  /\ \E fault \in BOOLEAN :
       LET err == UploadFails(store, mg.base, TRUE, fault)
           t   == MergeLog(mg, [op |-> "put", path |-> mg.base, ok |-> ~err])
       IN  /\ Inject(fault)
           /\ store' = AfterUpload(store, mg.base, MergedArray(mg.chunks),
                                   TRUE, fault)
           /\ mg' = IF err THEN MergeError(t) ELSE [t EXCEPT !.pc = "remove"]
  /\ UNCHANGED <<st, records, dl, mp>>

\* remove(chunkPaths); an error is logged and not thrown
MergeRemove ==
  /\ mg.pc = "remove"
  /\ \E fault \in BOOLEAN :
       LET t == MergeLog(mg, [op |-> "remove", path |-> MergeChunkPaths(mg),
                              ok |-> ~fault])
       IN  /\ Inject(fault)
           /\ store' = AfterRemove(store, Range(MergeChunkPaths(mg)), fault)
           /\ mg' = [t EXCEPT !.pc = "update"]
  /\ UNCHANGED <<st, records, dl, mp>>

\* from("media_files").update({storage_path, file_size})
\*   .eq("project_id", projectId).eq("file_name", fileName):
\* media_files has no column file_name, the update answers with an error
\* that is logged, and the handler answers { success: true }
MergeUpdate ==
  /\ mg.pc = "update"
  /\ mg' = [MergeLog(mg, [op |-> "update", path |-> mg.base, ok |-> FALSE])
              EXCEPT !.pc = "done", !.resp = "success"]
  /\ UNCHANGED <<st, store, records, faults, budget, dl, mp>>

\* ------------------------------------------------------------ deleteMediaFile

\* the call's record of the requests it issued and their answers
DeleteLog(s, entry) == [s EXCEPT !.ops = Append(@, entry)]

\* the rows of media_files with .eq("id", id)
RowsWithId(rows, id) == {r \in rows : r.id = id}

\* { data: media } of select("storage_path").eq("id", id).single(): null
\* when the call fails or when there is not exactly one such row; the error
\* is not looked at
Selected(rows, id, fault) ==
  IF fault \/ Cardinality(RowsWithId(rows, id)) # 1
    THEN [found |-> FALSE, storage_path |-> <<>>]
    ELSE [found |-> TRUE,
          storage_path |-> (CHOOSE r \in RowsWithId(rows, id) : TRUE).storage_path]

\* if (media?.storage_path)
HasStoragePath(media) == media.found /\ media.storage_path # <<>>

\* after the select: the removal when a storage path was read, else
\* straight to the delete of the row
DeleteAfterSelect(s, media) ==
  [s EXCEPT !.media = media,
            !.pc = IF HasStoragePath(media) THEN "remove" ELSE "deleteRecord"]

\* mutant of DeleteRemoveIssued: the removal is not awaited and the call
\* goes on to the delete of the row while the request is in flight
DeleteRemoveNotAwaited(s) ==
  [s EXCEPT !.pc = "deleteRecord",
            !.inflight = @ \cup {<<s.media.storage_path>>}]

\* await supabase.storage.from("media").remove([media.storage_path]) was
\* called: the request is in flight and the call is suspended at the await
DeleteRemoveIssued(s) ==
  [s EXCEPT !.pc = "removeAwait",
            !.inflight = @ \cup {<<s.media.storage_path>>}]

\* mutant of DeleteAfterRemove: an error of the removal is thrown
DeleteAfterRemoveThrows(s, err) ==
  IF err THEN [s EXCEPT !.pc = "done", !.outcome = "rejected"]
         ELSE [s EXCEPT !.pc = "deleteRecord"]

\* after the awaited removal: its answer is dropped and the delete of the
\* row comes next, error or not
DeleteAfterRemove(s, err) == [s EXCEPT !.pc = "deleteRecord"]

\* the locals of deleteMediaFile(id) before its first step; `target` keeps
\* the rows that had this id when the call was made
NewDelete(id, rows) ==
  [pc |-> "select", id |-> id, target |-> RowsWithId(rows, id),
   media |-> [found |-> FALSE, storage_path |-> <<>>],
   inflight |-> {}, ops |-> <<>>, outcome |-> "pending"]

\* no deleteMediaFile call is made
IdleDelete == [NewDelete(0, {}) EXCEPT !.pc = "idle"]

\* select("storage_path").eq("id", id).single()
DeleteSelect ==
  /\ dl.pc = "select"
  /\ \E fault \in BOOLEAN :
       LET media == Selected(records, dl.id, fault)
           t     == DeleteLog(dl, [op |-> "select", path |-> <<dl.id>>,
                                   ok |-> media.found])
       IN  /\ Inject(fault)
           /\ dl' = DeleteAfterSelect(t, media)
  /\ UNCHANGED <<st, store, records, mg, mp>>

\* remove([media.storage_path]) is issued
DeleteRemove ==
  /\ dl.pc = "remove"
  /\ dl' = DeleteRemoveIssued(dl)
  /\ UNCHANGED <<st, store, records, faults, budget, mg, mp>>

\* remove([media.storage_path]) is answered and the await resumes; the
\* answer is not looked at
DeleteRemoved ==
  /\ dl.pc = "removeAwait"
  /\ \E fault \in BOOLEAN :
       LET paths == <<dl.media.storage_path>>
           t     == DeleteLog(dl, [op |-> "remove", path |-> paths,
                                   ok |-> ~fault])
       IN  /\ Inject(fault)
           /\ store' = AfterRemove(store, Range(paths), fault)
           /\ dl' = DeleteAfterRemove([t EXCEPT !.inflight = @ \ {paths}],
                                     fault)
  /\ UNCHANGED <<st, records, mg, mp>>

\* from("media_files").delete().eq("id", id); if (error) throw error
DeleteRecord ==
  /\ dl.pc = "deleteRecord"
  /\ \E fault \in BOOLEAN :
       LET t == DeleteLog(dl, [op |-> "delete", path |-> <<dl.id>>,
                               ok |-> ~fault])
       IN  /\ Inject(fault)
           /\ records' = IF fault THEN records
                         ELSE records \ RowsWithId(records, dl.id)
           /\ dl' = [t EXCEPT !.pc = "done",
                              !.outcome = IF fault THEN "rejected"
                                                   ELSE "resolved"]
  /\ UNCHANGED <<st, store, mg, mp>>

\* ------------------------------------------------------------ MediaPanel

\* the values of mediaUrl and blobUrlRef.current: null, the public URL of an
\* object (mediaService.getMediaUrl), or the blob URL number id
NullUrl == [kind |-> "null", path |-> <<>>, id |-> 0]
PublicUrl(path) == [kind |-> "public", path |-> path, id |-> 0]
BlobUrl(id) == [kind |-> "blob", path |-> <<>>, id |-> id]

\* mediaService.getChunkedMediaUrls(mediaFile): the URLs of the total_chunks
\* parts named by chunk_pattern, in index order
ChunkedMediaUrls(file) ==
  [k \in 1 .. file.total_chunks |-> ChunkFileName(file.chunk_pattern, k - 1)]

\* if (mediaFile.is_chunked && mediaFile.total_chunks)
IsChunkedFile(file) == file.is_chunked /\ file.total_chunks # 0

\* cleanupBlobUrl(): if (blobUrlRef.current) { URL.revokeObjectURL(...);
\* blobUrlRef.current = null }
CleanupBlobUrl(p) ==
  IF p.blobUrlRef.kind = "null" THEN p
  ELSE [p EXCEPT !.blobs[p.blobUrlRef.id].revoked = TRUE,
                 !.blobUrlRef = NullUrl]

\* setMediaUrl(url); a state update of an unmounted component is dropped
SetMediaUrl(p, url) == IF p.mounted THEN [p EXCEPT !.mediaUrl = url] ELSE p

\* the loads of p that have not finished
PendingLoads(p) == {k \in 1 .. Len(p.loads) : p.loads[k].pc # "done"}

\* the locals of a loadMedia(file) call; `pending` keeps the loads that were
\* running when it was made
NewLoad(p, file) ==
  [file |-> file, pc |-> "urls", urls |-> <<>>, i |-> 0, chunks |-> <<>>,
   fetches |-> <<>>, inflight |-> {}, result |-> NullUrl,
   pending |-> PendingLoads(p)]

\* loadMedia(mediaFile) up to its first await: cleanupBlobUrl(), then for a
\* chunked file the call of getChunkedMediaUrls, for another file
\* setMediaUrl(getMediaUrl(storage_path)) and the return
LoadMedia(p, file) ==
  LET q == CleanupBlobUrl(p) IN
    IF IsChunkedFile(file)
      THEN [q EXCEPT !.loads = Append(@, NewLoad(p, file))]
      ELSE LET url == PublicUrl(file.storage_path) IN
             SetMediaUrl(
               [q EXCEPT !.loads = Append(@, [NewLoad(p, file) EXCEPT
                                                !.pc = "done",
                                                !.result = url])],
               url)

\* catch (error) { setMediaUrl(null) } and the end of load k
LoadFailed(p, k) ==
  SetMediaUrl([p EXCEPT !.loads[k].pc = "done", !.loads[k].result = NullUrl],
              NullUrl)

\* mutant of LoadPush: the fetched part is put in front of the others
LoadPushFront(chunks, blob) == <<blob>> \o chunks

\* chunks.push(blob)
LoadPush(chunks, blob) == Append(chunks, blob)

\* after the last part: new Blob(chunks), URL.createObjectURL,
\* blobUrlRef.current = blobUrl, setMediaUrl(blobUrl) and the end of load k
LoadFinished(p, k) ==
  LET id  == Len(p.blobs) + 1
      url == BlobUrl(id)
  IN  SetMediaUrl(
        [p EXCEPT !.blobs = Append(@, [bytes |-> Concat(p.loads[k].chunks),
                                       revoked |-> FALSE, load |-> k,
                                       changes |-> p.changes,
                                       mounted |-> p.mounted]),
                  !.blobUrlRef = url,
                  !.loads[k].pc = "done",
                  !.loads[k].result = url],
        url)

\* a part was fetched: push it and go on with the next one, or finish
LoadAfterFetchOk(p, k, blob) ==
  LET q == [p EXCEPT !.loads[k].chunks = LoadPush(@, blob),
                     !.loads[k].i = @ + 1,
                     !.loads[k].pc = "fetch"]
  IN  IF q.loads[k].i < Len(q.loads[k].urls) THEN q ELSE LoadFinished(q, k)

\* the panel after its first render without media
NewPanel ==
  [mounted |-> TRUE, media |-> 0, mediaUrl |-> NullUrl,
   blobUrlRef |-> NullUrl, loads |-> <<>>, blobs |-> <<>>, changes |-> 0]

\* no panel is shown
NoPanel == [NewPanel EXCEPT !.mounted = FALSE]

\* the media prop changes to the file with id m, or to null (m = 0): the
\* cleanup of the last effect runs cleanupBlobUrl(), then the effect runs
\* loadMedia(media), or cleanupBlobUrl() and setMediaUrl(null)
MediaChange(m) ==
  /\ mp.mounted
  /\ mp.changes < MaxChanges
  /\ m # mp.media
  /\ m = 0 \/ \E r \in records : r.id = m
  /\ LET p == [CleanupBlobUrl(mp) EXCEPT !.media = m, !.changes = @ + 1]
     IN  mp' = IF m = 0
                 THEN SetMediaUrl(CleanupBlobUrl(p), NullUrl)
                 ELSE LoadMedia(p, CHOOSE r \in records : r.id = m)
  /\ UNCHANGED <<st, store, records, faults, budget, mg, dl>>

\* the panel is unmounted: the cleanup of the last effect runs
Unmount ==
  /\ mp.mounted
  /\ mp' = [CleanupBlobUrl(mp) EXCEPT !.mounted = FALSE]
  /\ UNCHANGED <<st, store, records, faults, budget, mg, dl>>

\* await mediaService.getChunkedMediaUrls(mediaFile) resumes in load k
LoadUrls(k) ==
  /\ k \in 1 .. Len(mp.loads)
  /\ mp.loads[k].pc = "urls"
  /\ mp' = [mp EXCEPT !.loads[k].urls = ChunkedMediaUrls(mp.loads[k].file),
                      !.loads[k].pc = "fetch"]
  /\ UNCHANGED <<st, store, records, faults, budget, mg, dl>>

\* fetch(chunkUrls[i]) is issued in load k
LoadFetch(k) ==
  /\ k \in 1 .. Len(mp.loads)
  /\ mp.loads[k].pc = "fetch"
  /\ mp' = [mp EXCEPT !.loads[k].pc = "fetchAwait",
                      !.loads[k].inflight =
                         @ \cup {mp.loads[k].urls[mp.loads[k].i + 1]}]
  /\ UNCHANGED <<st, store, records, faults, budget, mg, dl>>

\* fetch(chunkUrls[i]) is answered in load k and response.blob() is read: a
\* response that is not ok, or a failed fetch, ends the load in the catch
LoadFetched(k) ==
  /\ k \in 1 .. Len(mp.loads)
  /\ mp.loads[k].pc = "fetchAwait"
  /\ \E fault \in BOOLEAN :
       LET l    == mp.loads[k]
           path == l.urls[l.i + 1]
           err  == DownloadFails(store, path, fault)
           p    == [mp EXCEPT !.loads[k].fetches =
                                 Append(@, [path |-> path, ok |-> ~err]),
                              !.loads[k].inflight = @ \ {path}]
       IN  /\ Inject(fault)
           /\ mp' = IF err THEN LoadFailed(p, k)
                           ELSE LoadAfterFetchOk(p, k, store[path])
  /\ UNCHANGED <<st, store, records, mg, dl>>

\* ------------------------------------------------------------ specification

\* one uploadMediaFile call, of either revision, for a file of a size in
\* `sizes`, with or without a signed-in user, on an empty bucket, with up to
\* `b` calls answered with an error
InitWith(sizes, b) ==
  /\ \E rev \in Revisions, size \in sizes, authed \in BOOLEAN :
       st = [c \in Calls |->
               IF c = 1 THEN NewCall(c, rev, size, authed) ELSE NoCall(c)]
  /\ store = <<>>
  /\ records = {}
  /\ faults = 0
  /\ budget = b
  /\ mg = IdleMerge
  /\ dl = IdleDelete
  /\ mp = NoPanel

\* behaviours with failing calls
Init == InitWith(FaultSizes, MaxFaults)

\* behaviours for every file size
InitSizes == InitWith(FileSizes, SizeFaults)

Next ==
  \/ \E c \in Calls : GetUser(c)
  \/ \E c \in Calls : ChunkPut(c)
  \/ \E c \in Calls : ChunkUpload(c)
  \/ \E c \in Calls : WholeUpload(c)
  \/ \E c \in Calls : Download(c)
  \/ \E c \in Calls : MergedUpload(c)
  \/ \E c \in Calls : RemoveChunks(c)
  \/ \E c \in Calls : InsertRecord(c)
  \/ \E c \in Calls : MergeRequest(c)
  \/ MergeDownload
  \/ MergeUpload
  \/ MergeRemove
  \/ MergeUpdate

Spec == Init /\ [][Next]_vars

SpecSizes == InitSizes /\ [][Next]_vars

\* the file sizes of two concurrent calls: one below and one above the
\* threshold
RaceSizes == {CHUNK_SIZE + CHUNK_SIZE, THRESHOLD + 1}

\* the name of the file of the second of two concurrent calls; the first
\* uploads the file "a". With "a.part0" the base name of the second call is
\* the name of part 0 of the first
RaceNames == {<<"a">>, <<"b">>, <<"a", ".part", 0>>}

\* two uploadMediaFile calls of the same revision by the same user for the
\* same project, both reading the same Date.now(), for two different files
\* with the same or with different names, on an empty bucket; no call is
\* answered with an injected error, a put fails only on a taken path
InitTwo ==
  /\ \E rev \in Revisions, size1 \in RaceSizes, size2 \in RaceSizes,
        name \in RaceNames :
       st = [c \in Calls |->
               IF c = 1 THEN NewCall(c, rev, size1, TRUE)
                        ELSE NamedCall(c, rev, size2, TRUE, 1, name)]
  /\ store = <<>>
  /\ records = {}
  /\ faults = 0
  /\ budget = 0
  /\ mg = IdleMerge
  /\ dl = IdleDelete
  /\ mp = NoPanel

SpecTwo == InitTwo /\ [][Next]_vars

\* the steps of call c: each is the code between two awaits, running when
\* the awaited call has returned
CallStep(c) ==
  \/ GetUser(c)
  \/ ChunkPut(c)
  \/ ChunkUpload(c)
  \/ WholeUpload(c)
  \/ Download(c)
  \/ MergedUpload(c)
  \/ RemoveChunks(c)
  \/ InsertRecord(c)

\* every storage and metadata call a call awaits returns in the end, and the
\* event loop then resumes the call
CallsReturn == \A c \in Calls : WF_vars(CallStep(c))

\* the behaviours of Spec in which every awaited call returns
SpecReturns == Init /\ [][Next]_vars /\ CallsReturn

\* the part paths a chunk manifest names: pattern + ".part" + i, i < n
DerivedPartPaths(row) ==
  {row.chunk_pattern \o <<".part", i>> : i \in 0 .. row.total_chunks - 1}

\* the rows deleteMediaFile may find: the row of a file stored as one object
\* at storage_path (what uploadMediaFile inserts), or a row with a chunk
\* manifest, is_chunked = true and total_chunks = n, whose parts are named
\* by chunk_pattern
PlainRow ==
  [NewRecord(NewCall(1, "merge", CHUNK_SIZE, TRUE), 1) EXCEPT !.call = 0]

ChunkedRow(n) ==
  [PlainRow EXCEPT !.file_size = n * CHUNK_SIZE, !.is_chunked = TRUE,
                   !.total_chunks = n, !.chunk_pattern = PlainRow.storage_path]

DeleteRows == {PlainRow} \cup {ChunkedRow(n) : n \in 1 .. MaxParts}

\* the paths at which objects of such a row may be stored
DeletePaths ==
  {PlainRow.storage_path} \cup
  {ChunkFileName(PlainRow.storage_path, i) : i \in 0 .. MaxParts - 1}

\* one deleteMediaFile(id) call for the id of the one row of media_files or
\* for an id without a row, with any of the objects stored or missing, and
\* up to MaxFaults calls answered with an error
InitDelete ==
  /\ st = [c \in Calls |-> NoCall(c)]
  /\ mg = IdleMerge
  /\ mp = NoPanel
  /\ faults = 0
  /\ budget = MaxFaults
  /\ \E row \in DeleteRows, present \in SUBSET DeletePaths, id \in DeleteIds :
       /\ records = {row}
       /\ store = [p \in present |-> SourceBytes(1, 1)]
       /\ dl = NewDelete(id, {row})

NextDelete ==
  \/ DeleteSelect
  \/ DeleteRemove
  \/ DeleteRemoved
  \/ DeleteRecord

SpecDelete == InitDelete /\ [][NextDelete]_vars

\* the rows the panel is shown: a row with a chunk manifest of n parts for
\* the file number id, and a row of a file stored as one object
PanelChunkedRow(id, n) ==
  [ChunkedRow(n) EXCEPT !.id = id,
                        !.storage_path = FileNameWithPath(id, <<"a">>),
                        !.chunk_pattern = FileNameWithPath(id, <<"a">>)]

PanelPlainRow(id) ==
  [PlainRow EXCEPT !.id = id, !.storage_path = FileNameWithPath(id, <<"a">>)]

\* the objects of a row: its parts, each holding its range of the file, or
\* the one object with the whole file
RowObjects(r) ==
  IF r.is_chunked
    THEN [p \in DerivedPartPaths(r) |->
            LET i == CHOOSE j \in 0 .. r.total_chunks - 1 :
                       p = ChunkFileName(r.chunk_pattern, j)
            IN  Slice(SourceBytes(r.id, r.file_size),
                      ChunkStart(i), ChunkEnd(i, r.file_size))]
    ELSE [p \in {r.storage_path} |-> SourceBytes(r.id, r.file_size)]

\* a mounted panel without media, two rows (the first with a manifest of n
\* parts, the second with or without one) whose objects are stored, and up
\* to SizeFaults fetches answered with an error
InitPanel ==
  /\ st = [c \in Calls |-> NoCall(c)]
  /\ mg = IdleMerge
  /\ dl = IdleDelete
  /\ faults = 0
  /\ budget = SizeFaults
  /\ mp = NewPanel
  /\ \E n \in 1 .. MaxParts, second \in {PanelPlainRow(2), PanelChunkedRow(2, 1)} :
       LET first == PanelChunkedRow(1, n) IN
         /\ records = {first, second}
         /\ store = [p \in DOMAIN RowObjects(first) \cup DOMAIN RowObjects(second) |->
                       IF p \in DOMAIN RowObjects(first)
                         THEN RowObjects(first)[p] ELSE RowObjects(second)[p]]

NextPanel ==
  \/ \E m \in 0 .. 2 : MediaChange(m)
  \/ Unmount
  \/ \E k \in 1 .. MaxChanges : LoadUrls(k)
  \/ \E k \in 1 .. MaxChanges : LoadFetch(k)
  \/ \E k \in 1 .. MaxChanges : LoadFetched(k)

SpecPanel == InitPanel /\ [][NextPanel]_vars

\* ------------------------------------------------------------ types

TypeOK ==
  /\ faults \in 0 .. budget
  /\ budget \in {0, SizeFaults, MaxFaults}
  /\ \A c \in Calls :
       /\ st[c].pc \in {"idle", "getUser", "chunkUpload", "chunkAwait",
                        "wholeUpload",
                        "download", "mergedUpload", "remove", "insert", "done"}
       /\ st[c].outcome \in {"pending", "resolved", "rejected"}
       /\ st[c].retries \in 0 .. MAX_RETRIES
  /\ mg.pc \in {"idle", "download", "upload", "remove", "update", "done"}
  /\ dl.pc \in {"idle", "select", "remove", "removeAwait", "deleteRecord",
                "done"}
  /\ dl.outcome \in {"pending", "resolved", "rejected"}
  /\ mp.changes \in 0 .. MaxChanges
  /\ mp.mediaUrl.kind \in {"null", "public", "blob"}
  /\ mp.blobUrlRef.kind \in {"null", "blob"}
  /\ \A k \in 1 .. Len(mp.loads) :
       mp.loads[k].pc \in {"urls", "fetch", "fetchAwait", "done"}

\* ------------------------------------------------------------ vocabulary of the claims

\* the positions of a log where `op` was issued for `path`
Issued(ops, op, path) ==
  {k \in 1 .. Len(ops) : ops[k].op = op /\ ops[k].path = path}

\* the positions of a log where `op` on `path` was acknowledged / failed
Acked(ops, op, path) == {k \in Issued(ops, op, path) : ops[k].ok}
Failed(ops, op, path) == {k \in Issued(ops, op, path) : ~ops[k].ok}

\* the positions of a log where `op` was issued, whatever the path
IssuedOp(ops, op) == {k \in 1 .. Len(ops) : ops[k].op = op}

\* the calls that were made
Made == {c \in Calls : st[c].pc # "idle"}

\* the name of part i of call c, written out: base_name + ".part" + i
PartName(c, i) == st[c].base \o <<".part", i>>

\* the number of parts of a file of size L: the least n with n * C >= L
PartsOf(L) == CHOOSE n \in 0 .. L : n * CHUNK_SIZE >= L /\ (n - 1) * CHUNK_SIZE < L

\* the bytes of the file call c was given
Source(c) == [k \in 1 .. st[c].size |-> <<c, k>>]

\* call c was given a file above the threshold
Large(c) == st[c].size > THRESHOLD

\* ------------------------------------------------------------ C1

\* C1: every record uploadMediaFile creates for a file above the 50 MiB
\* threshold has, at the moment it is inserted, an object at its
\* storage_path whose bytes are the complete source file.
C1_RecordHasCompleteObject ==
  \A c \in Made :
    (Large(c) /\ st[c].outcome = "resolved")
      => /\ st[c].objectAtInsert.present
         /\ st[c].objectAtInsert.bytes = Source(c)

\* ------------------------------------------------------------ C2

\* chunk k of call c has used up its three attempts
Exhausted(c, k) ==
  Cardinality(Failed(st[c].ops, "put", PartName(c, k))) = MAX_RETRIES

\* C2: once all 3 put attempts for chunk k have failed, no put was or is
\* issued for a chunk index above k, no download, merged put or removal is
\* issued, no record is inserted, and the call has rejected.
C2_ExhaustedChunkAborts ==
  \A c \in Made : \A k \in 0 .. st[c].chunks - 1 :
    Exhausted(c, k) =>
      /\ \A j \in k + 1 .. st[c].chunks - 1 :
           Issued(st[c].ops, "put", PartName(c, j)) = {}
      /\ IssuedOp(st[c].ops, "download") = {}
      /\ IssuedOp(st[c].ops, "remove") = {}
      /\ Issued(st[c].ops, "put", st[c].base) = {}
      /\ IssuedOp(st[c].ops, "insert") = {}
      /\ \A r \in records : r.call # c
      /\ st[c].pc = "done" /\ st[c].outcome = "rejected"

\* a chunk after the first used up its attempts, earlier chunks stored
C2_Witness ==
  \E c \in Made : \E k \in 1 .. st[c].chunks - 1 :
    /\ Exhausted(c, k)
    /\ Acked(st[c].ops, "put", PartName(c, k - 1)) # {}

\* ------------------------------------------------------------ C3

\* the writes uploadMediaFile issued before position p of its log
AckedBefore(ops, op, path, p) == {k \in Acked(ops, op, path) : k < p}

\* C3: the record insert is issued only after an acknowledged put of every
\* chunk 0..N-1 (of the whole file for a single-shot upload, and of the
\* merged object in the merging revision), and nothing is written to the
\* object store or to media_files after it before the call resolves.
C3_InsertIsLastWrite ==
  \A c \in Made : \A p \in IssuedOp(st[c].ops, "insert") :
    /\ Large(c) =>
         /\ \A i \in 0 .. PartsOf(st[c].size) - 1 :
              AckedBefore(st[c].ops, "put", PartName(c, i), p) # {}
         /\ st[c].rev = "merge" =>
              AckedBefore(st[c].ops, "put", st[c].base, p) # {}
    /\ ~Large(c) => AckedBefore(st[c].ops, "put", st[c].base, p) # {}
    /\ p = Len(st[c].ops)
    /\ st[c].pc = "done"

\* a chunked upload of the merging revision resolved after retries
C3_Witness ==
  \E c \in Made :
    /\ Large(c) /\ st[c].rev = "merge" /\ st[c].outcome = "resolved"
    /\ st[c].ops[Len(st[c].ops)].op = "insert"
    /\ faults > 0

\* ------------------------------------------------------------ C4

\* a log holds a failed step of the merge phase: a chunk download, or the
\* put of the merged object at `base`
MergeStepFailed(ops, base) ==
  \/ \E k \in IssuedOp(ops, "download") : ~ops[k].ok
  \/ Failed(ops, "put", base) # {}

\* the parts 0 .. n-1 under `base` are all in the bucket
PartsPresent(base, n) ==
  \A i \in 0 .. n - 1 : (base \o <<".part", i>>) \in DOMAIN store

\* C4: when a chunk download or the merged-object put fails during the
\* merge, the operation fails (uploadMediaFile has rejected, the merge
\* handler has answered success = false), no removal of the parts was
\* issued and the parts are all still stored, and no record was inserted or
\* updated.
C4_MergeFailureKeepsParts ==
  /\ \A c \in Made :
       (Large(c) /\ st[c].rev = "merge" /\ MergeStepFailed(st[c].ops, st[c].base))
         => /\ st[c].pc = "done" /\ st[c].outcome = "rejected"
            /\ IssuedOp(st[c].ops, "remove") = {}
            /\ PartsPresent(st[c].base, Len(st[c].uploadedChunkPaths))
            /\ IssuedOp(st[c].ops, "insert") = {}
            /\ \A r \in records : r.call # c
  /\ MergeStepFailed(mg.ops, mg.base)
       => /\ mg.pc = "done" /\ mg.resp = "error"
          /\ IssuedOp(mg.ops, "remove") = {}
          /\ PartsPresent(mg.base, mg.totalChunks)
          /\ IssuedOp(mg.ops, "update") = {}

\* the client-side merge downloaded every part and then failed to put the
\* merged object
C4_Witness ==
  \E c \in Made :
    /\ Large(c) /\ st[c].rev = "merge"
    /\ Failed(st[c].ops, "put", st[c].base) # {}
    /\ Len(st[c].chunkBlobs) = st[c].chunks

\* ------------------------------------------------------------ C5

\* part i of call c is stored with the bytes of its range
PartStored(c, i) ==
  /\ PartName(c, i) \in DOMAIN store
  /\ store[PartName(c, i)] =
       [k \in 1 .. (IF (i + 1) * CHUNK_SIZE <= st[c].size
                      THEN CHUNK_SIZE ELSE st[c].size - i * CHUNK_SIZE)
          |-> <<c, i * CHUNK_SIZE + k>>]

\* the object at the base name of call c is the complete file
MergedStored(c) ==
  st[c].base \in DOMAIN store /\ store[st[c].base] = Source(c)

\* every removal in a log comes after an acknowledged put at `base` there
RemoveAfterMergedPut(ops, base) ==
  \A p \in IssuedOp(ops, "remove") : AckedBefore(ops, "put", base, p) # {}

\* C5: in every state after all N chunks of a file were uploaded, all N part
\* objects are stored or the object at the base name holds the complete
\* bytes; and a removal of the parts is issued only after the put of the
\* merged object was acknowledged.
C5_FullCopyExists ==
  /\ \A c \in Made :
       (Large(c) /\ Len(st[c].uploadedChunkPaths) = PartsOf(st[c].size))
         => \/ \A i \in 0 .. PartsOf(st[c].size) - 1 : PartStored(c, i)
            \/ MergedStored(c)
  /\ \A c \in Made : RemoveAfterMergedPut(st[c].ops, st[c].base)
  /\ RemoveAfterMergedPut(mg.ops, mg.base)

\* the parts were removed after the merge and only the merged object is left
C5_Witness ==
  \E c \in Made :
    /\ Large(c) /\ Len(st[c].uploadedChunkPaths) = PartsOf(st[c].size)
    /\ \A i \in 0 .. PartsOf(st[c].size) - 1 : PartName(c, i) \notin DOMAIN store
    /\ MergedStored(c)

\* ------------------------------------------------------------ C6

\* the upload phase of call c is over and no unit failed
Uploaded(c) ==
  \/ st[c].pc \in {"download", "mergedUpload", "remove", "insert"}
  \/ st[c].outcome = "resolved"
  \/ st[c].outcome = "rejected" /\ st[c].error \in {"Merge operation failed", "insert"}

\* the paths of the part objects call c has put (acknowledged puts)
PartsPut(c) ==
  {st[c].ops[k].path : k \in {j \in IssuedOp(st[c].ops, "put") :
      st[c].ops[j].ok /\ st[c].ops[j].path # st[c].base}}

\* C6: with C = 5 MiB and T = 50 MiB, a file of size L > T is uploaded as
\* exactly ceil(L/C) distinct part objects, indices 0 .. ceil(L/C)-1, each
\* put once; a file of size L <= T (L = T included) as exactly one object
\* under the base name and no part object. 120 MiB gives 24 chunks, 10 MiB
\* one whole-file upload.
C6_ChunkCount ==
  /\ \A c \in Made : Uploaded(c) =>
       IF st[c].size > THRESHOLD
         THEN /\ PartsPut(c) = {PartName(c, i) : i \in 0 .. PartsOf(st[c].size) - 1}
              /\ \A i \in 0 .. PartsOf(st[c].size) - 1 :
                   Cardinality(Acked(st[c].ops, "put", PartName(c, i))) = 1
         ELSE /\ Cardinality(Acked(st[c].ops, "put", st[c].base)) = 1
              /\ PartsPut(c) = {}
              /\ \A k \in IssuedOp(st[c].ops, "put") : st[c].ops[k].path = st[c].base
  /\ UseChunks(120) /\ ChunkCount(120) = 24
  /\ ~UseChunks(10) /\ ~UseChunks(THRESHOLD)

\* a file of 56 MiB went up as 12 parts, the last one short
C6_Witness ==
  \E c \in Made :
    /\ Uploaded(c) /\ st[c].size = 56
    /\ Cardinality(PartsPut(c)) = 12

\* ------------------------------------------------------------ C7

\* the offsets (1-based) of the source bytes held by a stored part
OffsetsOf(body) == {body[k][2] : k \in 1 .. Len(body)}

\* all parts of call c are in the bucket
AllPartsStored(c) ==
  /\ Large(c) /\ Len(st[c].uploadedChunkPaths) = st[c].chunks /\ st[c].chunks > 0
  /\ \A i \in 0 .. st[c].chunks - 1 : PartName(c, i) \in DOMAIN store

\* the lengths of the bodies of a sequence of parts, added up
RECURSIVE TotalLen(_)
TotalLen(parts) ==
  IF parts = <<>> THEN 0 ELSE Len(Head(parts)) + TotalLen(Tail(parts))

\* C7: the ranges [i*C, min((i+1)*C, L)) that are sliced and stored as the
\* parts 0 .. N-1 partition [0, L): together they hold every byte of the
\* source and no byte twice, each part is a contiguous run in source order
\* that starts where the previous one ended, every part but the last is C
\* long and the last is L mod C long (C when C divides L); part i is stored
\* under base_name + ".part" + i.
C7_RangesPartition ==
  \A c \in Made : AllPartsStored(c) =>
    LET L == st[c].size
        N == st[c].chunks
        parts == [i \in 1 .. N |-> store[st[c].base \o <<".part", i - 1>>]]
    IN  /\ \A i \in 1 .. N :
             st[c].uploadedChunkPaths[i] = st[c].base \o <<".part", i - 1>>
        /\ UNION {OffsetsOf(parts[i]) : i \in 1 .. N} = 1 .. L
        /\ TotalLen(parts) = L
        /\ \A i \in 1 .. N : \A k \in 1 .. Len(parts[i]) :
             parts[i][k] = <<c, (i - 1) * CHUNK_SIZE + k>>
        /\ \A i \in 1 .. N - 1 : Len(parts[i]) = CHUNK_SIZE
        /\ Len(parts[N]) = (IF L % CHUNK_SIZE = 0 THEN CHUNK_SIZE ELSE L % CHUNK_SIZE)

\* a file whose size is no multiple of the chunk size is stored in parts
C7_Witness ==
  \E c \in Made :
    /\ AllPartsStored(c)
    /\ st[c].size % CHUNK_SIZE = 3

\* ------------------------------------------------------------ C8

\* the call whose parts the merge handler was asked to merge
MergedCall == CHOOSE c \in Made : st[c].base = mg.base

\* C8: the parts downloaded and concatenated in index order are the bytes of
\* the original file, and these are the bytes stored as the merged object, in
\* the client-side merge and in the merge handler.
C8_RoundTrip ==
  /\ \A c \in Made : (Large(c) /\ st[c].rev = "merge") =>
       /\ st[c].pc = "mergedUpload" =>
            /\ Len(st[c].chunkBlobs) = PartsOf(st[c].size)
            /\ Concat(st[c].chunkBlobs) = Source(c)
       /\ Acked(st[c].ops, "put", st[c].base) # {} => MergedStored(c)
  /\ mg.pc = "upload" =>
       /\ Len(mg.chunks) = PartsOf(st[MergedCall].size)
       /\ MergedArray(mg.chunks) = Source(MergedCall)
  /\ Acked(mg.ops, "put", mg.base) # {} => MergedStored(MergedCall)

\* the merge handler has stored the merged object of an upload in parts
C8_Witness ==
  /\ Acked(mg.ops, "put", mg.base) # {}
  /\ MergedStored(MergedCall)
  /\ st[MergedCall].size % CHUNK_SIZE # 0

\* ------------------------------------------------------------ C9

\* the put of chunk k of call c failed once or twice and then succeeded
Recovered(c, k) ==
  /\ Cardinality(Failed(st[c].ops, "put", PartName(c, k))) \in {1, 2}
  /\ Acked(st[c].ops, "put", PartName(c, k)) # {}

\* no request of call c failed but puts of chunk k
OnlyChunkFailed(c, k) ==
  \A p \in 1 .. Len(st[c].ops) :
    ~st[c].ops[p].ok => (st[c].ops[p].op = "put" /\ st[c].ops[p].path = PartName(c, k))

\* no removal of parts was acknowledged so far
NothingRemoved ==
  /\ \A c \in Made : \A p \in IssuedOp(st[c].ops, "remove") : ~st[c].ops[p].ok
  /\ \A p \in IssuedOp(mg.ops, "remove") : ~mg.ops[p].ok

\* after the acknowledged put of chunk k the call goes on with chunk k+1
ProceedsAfter(c, k) ==
  \A p \in Acked(st[c].ops, "put", PartName(c, k)) :
    k + 1 < st[c].chunks =>
      IF p = Len(st[c].ops)
        THEN /\ st[c].pc \in {"chunkUpload", "chunkAwait"}
             /\ st[c].i = k + 1 /\ st[c].retries = 0
        ELSE st[c].ops[p + 1].op = "put" /\ st[c].ops[p + 1].path = PartName(c, k + 1)

\* C9 (retry part; holds in both revisions): when the put of chunk k fails
\* once or twice and then succeeds, the call goes on with chunk k+1 and
\* chunk k is stored exactly once, with the bytes of range k.
C9_RetryPart ==
  \A c \in Made : \A k \in 0 .. st[c].chunks - 1 :
    Recovered(c, k) =>
      /\ ProceedsAfter(c, k)
      /\ Cardinality(Acked(st[c].ops, "put", PartName(c, k))) = 1
      /\ NothingRemoved => PartStored(c, k)

\* C9 (final file): every other operation succeeding, the call resolves
\* with a record whose stored file is the source bytes.
C9_FinalFile ==
  \A c \in Made : \A k \in 0 .. st[c].chunks - 1 :
    (Recovered(c, k) /\ OnlyChunkFailed(c, k) /\ st[c].pc = "done") =>
      /\ st[c].outcome = "resolved"
      /\ \E r \in records : r.call = c /\ r.storage_path = st[c].base
      /\ st[c].objectAtInsert.present
      /\ st[c].objectAtInsert.bytes = Source(c)

\* C9: when the put of chunk k fails once or twice and then succeeds within
\* the 3 attempts, the call goes on with chunk k+1, chunk k is stored
\* exactly once with the bytes of range k, and, every other operation
\* succeeding, the call resolves with a record whose stored file is the
\* source bytes.
C9_TransientFailureStillCorrect == C9_RetryPart /\ C9_FinalFile

\* ------------------------------------------------------------ C10

\* the upload units of call c: its parts, or the whole file
Units(c) ==
  IF Large(c) THEN {PartName(c, i) : i \in 0 .. st[c].chunks - 1}
              ELSE {st[c].base}

\* C10: every upload unit (a chunk, or the whole file when L <= T) is put
\* at most MAX_RETRIES = 3 times, no attempt for a unit follows its first
\* acknowledged attempt, and the upload is declared failed only when a unit
\* has exactly 3 failed attempts and none acknowledged.
C10_AtMostThreeAttempts ==
  \A c \in Made :
    /\ \A u \in Units(c) :
         /\ Cardinality(Issued(st[c].ops, "put", u)) <= 3
         /\ \A p \in Acked(st[c].ops, "put", u) :
              \A q \in Issued(st[c].ops, "put", u) : q <= p
    /\ (st[c].outcome = "rejected" /\ st[c].error = "upload") =>
         \E u \in Units(c) :
           /\ Cardinality(Failed(st[c].ops, "put", u)) = 3
           /\ Acked(st[c].ops, "put", u) = {}
           /\ st[c].ops[Len(st[c].ops)].path = u

\* a single-shot upload was given up after its third failed attempt
C10_Witness ==
  \E c \in Made :
    /\ ~Large(c) /\ st[c].outcome = "rejected" /\ st[c].error = "upload"
    /\ Cardinality(Failed(st[c].ops, "put", st[c].base)) = 3

\* ------------------------------------------------------------ C11

\* the puts of call c that were issued and are not answered yet
InFlight(c) == st[c].inflight

\* C11: within one uploadMediaFile call the chunk puts are strictly
\* sequential: at most one put is in flight at any time, no put is issued
\* while another one is unanswered, and the first put of chunk i+1 (answered
\* or still in flight) comes only after an acknowledged put of chunk i
C11_SequentialChunkPuts ==
  \A c \in Made :
    /\ Cardinality(InFlight(c)) <= 1
    /\ \A i \in 0 .. st[c].chunks - 2 :
         /\ PartName(c, i + 1) \in InFlight(c) =>
              Acked(st[c].ops, "put", PartName(c, i)) # {}
         /\ \A p \in Issued(st[c].ops, "put", PartName(c, i + 1)) :
              AckedBefore(st[c].ops, "put", PartName(c, i), p) # {}

\* the put of chunk 1 is in flight after chunk 0 needed a second attempt
C11_Witness ==
  \E c \in Made :
    /\ InFlight(c) = {PartName(c, 1)}
    /\ Failed(st[c].ops, "put", PartName(c, 0)) # {}
    /\ Acked(st[c].ops, "put", PartName(c, 0)) # {}

\* ------------------------------------------------------------ C12

\* C12: without a signed-in user uploadMediaFile rejects with the
\* not-authenticated error as its first step: no put was issued or is in
\* flight, nothing was retried, no progress was reported and no record of
\* the call was inserted
C12_NotAuthenticated ==
  \A c \in Made :
    ~st[c].authed =>
      /\ st[c].ops = <<>>
      /\ InFlight(c) = {}
      /\ st[c].retries = 0
      /\ st[c].progress = <<>>
      /\ \A r \in records : r.call # c
      /\ st[c].pc # "getUser" =>
           /\ st[c].pc = "done"
           /\ st[c].outcome = "rejected"
           /\ st[c].error = "User not authenticated"

\* a call without a signed-in user was rejected
C12_Witness ==
  \E c \in Made :
    /\ ~st[c].authed
    /\ st[c].outcome = "rejected"
    /\ st[c].error = "User not authenticated"

\* ------------------------------------------------------------ C13

\* the insert of call c was issued and answered with an error
InsertFailed(c) == \E p \in IssuedOp(st[c].ops, "insert") : ~st[c].ops[p].ok

\* the update of the merge handler was issued and answered with an error
UpdateFailed == \E p \in IssuedOp(mg.ops, "update") : ~mg.ops[p].ok

\* what call c has put is stored: the object at the base name, or every
\* part for a chunked upload of the revision that keeps the parts
WrittenRemains(c) ==
  IF Large(c) /\ st[c].rev = "parts"
    THEN PartsPresent(st[c].base, st[c].chunks)
    ELSE st[c].base \in DOMAIN store /\ store[st[c].base] = Source(c)

\* C13 (uploadMediaFile; holds in both revisions): when the storage steps
\* succeeded and the insert of the record failed, the call rejects and what
\* it has put stays stored
C13_UploadReportsFailure ==
  \A c \in Made :
    InsertFailed(c) =>
      /\ st[c].pc = "done" /\ st[c].outcome = "rejected"
      /\ \A r \in records : r.call # c
      /\ WrittenRemains(c)

\* C13 (merge function): when the storage steps succeeded and the update of
\* the record failed, the handler does not answer success, and the merged
\* object stays stored
C13_MergeReportsFailure ==
  (mg.pc = "done" /\ UpdateFailed) =>
    /\ mg.resp # "success"
    /\ mg.base \in DOMAIN store

\* C13: if all storage steps succeed but writing the media_files record
\* fails, the operation is reported to the caller as failed (uploadMediaFile
\* rejects, the merge function does not answer success) while the storage
\* objects already written remain in the store
C13_RecordFailureReported ==
  C13_UploadReportsFailure /\ C13_MergeReportsFailure

\* ------------------------------------------------------------ C14

\* the request at position p of a log was tried again later (a retry of the
\* same put)
Retried(ops, p) ==
  \E q \in p + 1 .. Len(ops) :
    ops[q].op = ops[p].op /\ ops[q].path = ops[p].path

\* the requests of a log that failed for good: answered with an error and
\* not tried again
FinalFailures(ops) ==
  {p \in 1 .. Len(ops) : ~ops[p].ok /\ ~Retried(ops, p)}

\* C14: every failure of an object-store or metadata operation during an
\* upload or a merge (a chunk put after its retries, a chunk download, the
\* put of the merged object, the removal of the chunks, the insert or update
\* of the record) reaches the caller as an error outcome: a finished call
\* with such a failure has rejected, a finished merge has answered an error
C14_FailuresPropagate ==
  /\ \A c \in Made :
       (st[c].pc = "done" /\ FinalFailures(st[c].ops) # {}) =>
         st[c].outcome = "rejected"
  /\ (mg.pc = "done" /\ FinalFailures(mg.ops) # {}) => mg.resp = "error"

\* ------------------------------------------------------------ C15

\* all attempts of the single-shot upload of call c failed
ExhaustedWhole(c) ==
  ~Large(c) /\ Cardinality(Failed(st[c].ops, "put", st[c].base)) = MAX_RETRIES

\* C15 (chunks): when all attempts for chunk k failed, the error the call
\* rejects with names the index k
C15_NamesChunk ==
  \A c \in Made : \A k \in 0 .. st[c].chunks - 1 :
    (Exhausted(c, k) /\ st[c].outcome = "rejected") =>
      st[c].errorUnit = ChunkUnit(k)

\* C15 (single-shot): when all attempts for the whole file failed, the error
\* the call rejects with names the whole file
C15_NamesWholeFile ==
  \A c \in Made :
    (ExhaustedWhole(c) /\ st[c].outcome = "rejected") =>
      st[c].errorUnit = FileUnit

\* C15: when all attempts for an upload unit fail, the error with which
\* uploadMediaFile rejects identifies the failing unit: the index k of the
\* failed chunk, or the whole file for a single-shot upload
C15_ErrorNamesUnit == C15_NamesChunk /\ C15_NamesWholeFile

\* ------------------------------------------------------------ C16

\* C16: whatever the file size and whichever request fails or succeeds, the
\* percentages a call passes to onProgress are non-decreasing and each of
\* them lies in 0 .. 100
C16_ProgressMonotone ==
  \A c \in Made :
    LET q == st[c].progress IN
      /\ \A k \in 1 .. Len(q) : q[k] \in 0 .. 100
      /\ \A k \in 1 .. Len(q) - 1 : q[k] <= q[k + 1]

\* a chunked upload with a failed request went through every stage of the
\* client-side merge and reported after each chunk and each download
C16_Witness ==
  \E c \in Made :
    /\ Large(c) /\ st[c].rev = "merge" /\ st[c].outcome = "resolved"
    /\ FinalFailures(st[c].ops) # {}
    /\ Len(st[c].progress) > 2 * st[c].chunks
    /\ \E k \in 1 .. Len(st[c].progress) - 1 :
         st[c].progress[k] < st[c].progress[k + 1]

\* ------------------------------------------------------------ C17

\* the last percentage call c has reported is 100
LastIs100(c) ==
  Len(st[c].progress) > 0 /\ st[c].progress[Len(st[c].progress)] = 100

\* C17: for a finished uploadMediaFile call, chunked or single-shot, the
\* last percentage passed to onProgress is 100 if and only if the call
\* resolved
C17_Last100IffResolved ==
  \A c \in Made :
    st[c].pc = "done" => (LastIs100(c) <=> st[c].outcome = "resolved")

\* ------------------------------------------------------------ C18

\* call c has reported 100
Reported100(c) == \E k \in 1 .. Len(st[c].progress) : st[c].progress[k] = 100

\* C18: onProgress is never called with 100 before the insert of the
\* media_files record has succeeded: in every state in which a call has
\* reported 100 its log holds an acknowledged insert
C18_No100BeforeInsert ==
  \A c \in Made :
    Reported100(c) => \E p \in IssuedOp(st[c].ops, "insert") : st[c].ops[p].ok

\* ------------------------------------------------------------ C19

\* the paths for which the deleteMediaFile call has issued a removal
RemovalsIssued ==
  UNION {Range(dl.ops[p].path) : p \in IssuedOp(dl.ops, "remove")}

\* the deleteMediaFile call has read the row it was called for and returned
DeletedKnownRow(row) ==
  /\ dl.pc = "done" /\ dl.outcome = "resolved"
  /\ dl.target = {row}
  /\ dl.media.found

\* C19 (chunked row): with is_chunked = true and total_chunks = N the call
\* issues removals for exactly the N derived part paths, and one delete of
\* the row
C19_DeleteChunked ==
  \A row \in dl.target :
    (DeletedKnownRow(row) /\ row.is_chunked) =>
      /\ RemovalsIssued = DerivedPartPaths(row)
      /\ Cardinality(IssuedOp(dl.ops, "delete")) = 1
      /\ row \notin records

\* C19 (other rows): the call issues the removal of the one object at
\* storage_path, and one delete of the row
C19_DeletePlain ==
  \A row \in dl.target :
    (DeletedKnownRow(row) /\ ~row.is_chunked) =>
      /\ RemovalsIssued = {row.storage_path}
      /\ Cardinality(IssuedOp(dl.ops, "delete")) = 1
      /\ row \notin records

\* C19: deleteMediaFile on a record with is_chunked = true and
\* total_chunks = N issues a delete for exactly the N part paths derived
\* from the chunk pattern (indices 0 .. N-1) plus a delete of the record; on
\* a non-chunked record it deletes the single object at storage_path and the
\* record
C19_DeleteIssuesExactly == C19_DeleteChunked /\ C19_DeletePlain

\* ------------------------------------------------------------ C20

\* C20: in deleteMediaFile the removal of the backing objects is issued and
\* awaited before the delete of the record: every removal in the log comes
\* before every delete of the row, no removal is in flight once the delete
\* of the row is due or issued, and when a storage path was read the removal
\* was answered before the delete of the row was issued
C20_ObjectsBeforeRecord ==
  /\ \A p \in IssuedOp(dl.ops, "delete") :
       \A q \in IssuedOp(dl.ops, "remove") : q < p
  /\ (dl.pc = "deleteRecord" \/ IssuedOp(dl.ops, "delete") # {}) =>
       /\ dl.inflight = {}
       /\ HasStoragePath(dl.media) => IssuedOp(dl.ops, "remove") # {}

\* the row was deleted after the removal of its object had been answered
\* with an error
C20_Witness ==
  /\ dl.pc = "done" /\ dl.outcome = "resolved"
  /\ dl.target # {} /\ records = {}
  /\ \E q \in IssuedOp(dl.ops, "remove") : ~dl.ops[q].ok
  /\ \E p \in IssuedOp(dl.ops, "delete") : dl.ops[p].ok

\* ------------------------------------------------------------ C21

\* C21: in deleteMediaFile a failed or no-op removal of the backing object
\* (storage error, no storage path read, object missing) does not abort the
\* deletion: the call goes on to the delete of the row, a finished call has
\* issued it exactly once, and the call rejects only if that delete failed
C21_RemovalFailureTolerated ==
  /\ (\E q \in IssuedOp(dl.ops, "remove") : ~dl.ops[q].ok) =>
       dl.pc \in {"deleteRecord", "done"}
  /\ (IssuedOp(dl.ops, "select") # {} /\ ~HasStoragePath(dl.media)) =>
       dl.pc \in {"deleteRecord", "done"}
  /\ dl.pc = "done" =>
       /\ Cardinality(IssuedOp(dl.ops, "delete")) = 1
       /\ dl.outcome = "rejected" <=>
            \E p \in IssuedOp(dl.ops, "delete") : ~dl.ops[p].ok

\* the lookup gave no storage path and the row was deleted all the same
C21_Witness ==
  /\ dl.pc = "done" /\ dl.outcome = "resolved"
  /\ dl.target # {} /\ records = {}
  /\ ~HasStoragePath(dl.media)
  /\ IssuedOp(dl.ops, "remove") = {}

\* ------------------------------------------------------------ C22

\* C22: in every reachable state every media_files row with is_chunked =
\* true has a positive total_chunks and all its parts 0 .. total_chunks-1
\* stored under its chunk pattern, and every row with is_chunked false or
\* unset has an object at storage_path
C22_RowsHaveObjects ==
  \A r \in records :
    IF r.is_chunked
      THEN /\ r.total_chunks > 0
           /\ DerivedPartPaths(r) \subseteq DOMAIN store
      ELSE r.storage_path \in DOMAIN store

\* ------------------------------------------------------------ C23

\* the loads of rows with a chunk manifest
ChunkedLoads == {k \in 1 .. Len(mp.loads) : IsChunkedFile(mp.loads[k].file)}

\* load k has handed a buffer to the player
Loaded(k) == mp.loads[k].pc = "done" /\ mp.loads[k].result.kind = "blob"

OwnPaths(c) ==
  {st[c].base} \cup
  (IF Large(c) THEN {PartName(c, i) : i \in 0 .. PartsOf(st[c].size) - 1}
               ELSE {})

\* the paths call c has put, downloaded or asked to remove
Touched(c) ==
  UNION {IF st[c].ops[p].op = "remove" THEN Range(st[c].ops[p].path)
         ELSE IF st[c].ops[p].op = "insert" THEN {}
         ELSE {st[c].ops[p].path} : p \in 1 .. Len(st[c].ops)}

\* what call c stores when it runs alone and no request fails: the file at
\* the base name, or its parts in the revision that keeps them (as long as
\* the merge function was not asked to merge them)
StoredAsAlone(c) ==
  IF Large(c) /\ st[c].rev = "parts"
    THEN mg.pc = "idle" => \A i \in 0 .. st[c].chunks - 1 : PartStored(c, i)
    ELSE MergedStored(c)

\* two calls with different base names
Apart(c, d) == c # d /\ st[c].base # st[d].base

\* C24: two concurrent uploadMediaFile calls with different base names never
\* interact: neither puts, downloads or removes an object under the base
\* name of the other, and each ends as it does alone (no request failing:
\* resolved, with its file stored)
C24_DifferentNamesApart ==
  \A c \in Made : \A d \in Made :
    Apart(c, d) =>
      /\ Touched(c) \cap OwnPaths(d) = {}
      /\ st[c].pc = "done" =>
           /\ st[c].outcome = "resolved"
           /\ StoredAsAlone(c)

\* ------------------------------------------------------------ C25

\* a row or manifest refers to a path under the base name of call c
Referred(c) ==
  \E r \in records :
    \/ r.call = c
    \/ r.storage_path \in OwnPaths(c)
    \/ (r.is_chunked /\ DerivedPartPaths(r) \cap OwnPaths(c) # {})

SameName(c, d) == c # d /\ st[c].base = st[d].base

\* C26: when two uploadMediaFile calls for different files run concurrently
\* under the same base name, under every interleaving every media_files
\* record that was created points at an object whose bytes are exactly the
\* file of the call that created the record
C26_SameNameRecordsOwnBytes ==
  \A c \in Made : \A d \in Made :
    SameName(c, d) =>
      \A r \in records :
        r.call = c =>
          /\ r.storage_path \in DOMAIN store
          /\ store[r.storage_path] = Source(c)


\* ------------------------------------------------------------ C27

\* the step answers a put of call c that was issued with upsert: false
\* (a chunk or the whole file)
PlainPutAnswered(c) ==
  /\ st[c].pc \in {"chunkAwait", "wholeUpload"}
  /\ Len(st'[c].ops) = Len(st[c].ops) + 1

\* the object at path p is replaced by the step
Replaced(p) ==
  p \in DOMAIN store /\ p \in DOMAIN store' /\ store'[p] # store[p]

\* C27: a chunk put and a single-shot put (both upsert: false) never replace
\* an object: on a path that is taken the put is answered with an error and
\* the object store is left as it was, on the first attempt and on every
\* retry; an object is replaced only by the put of the merged object
\* (upsert: true), at the base name
C27_PlainPutNeverReplaces ==
  [][ /\ \A c \in Calls :
           PlainPutAnswered(c) =>
             LET op == st'[c].ops[Len(st'[c].ops)]
             IN  op.path \in DOMAIN store => (~op.ok /\ store' = store)
      /\ \A p \in DOMAIN store :
           Replaced(p) =>
             \/ \E c \in Calls : st[c].pc = "mergedUpload" /\ p = st[c].base
             \/ mg.pc = "upload" /\ p = mg.base ]_vars

\* a call has put a chunk three times on a path another call had taken, all
\* three were refused, and the other call's object is still there
C27_Witness ==
  \E c \in Made : \E i \in 0 .. THRESHOLD :
    /\ Cardinality(Failed(st[c].ops, "put", PartName(c, i))) = MAX_RETRIES
    /\ Acked(st[c].ops, "put", PartName(c, i)) = {}
    /\ PartName(c, i) \in DOMAIN store
    /\ \E d \in Made \ {c} :
         store[PartName(c, i)] = Slice(Source(d), 0, CHUNK_SIZE)


\* ------------------------------------------------------------ C28

\* the load of the media shown now was started while a load of another
\* file was still running
StartedDuringOther(p) ==
  /\ p.loads # <<>>
  /\ LET last == p.loads[Len(p.loads)] IN
       /\ p.media = last.file.id
       /\ \E k \in last.pending : p.loads[k].file.id # last.file.id

\* C28: when media changes from A to B while loadMedia(A) is still fetching,
\* then once both loads have finished the URL shown is the one of B (null
\* if the load of B failed), never the one of A
C28_LatestMediaShown ==
  (mp.mounted /\ StartedDuringOther(mp) /\ PendingLoads(mp) = {}) =>
    mp.mediaUrl = mp.loads[Len(mp.loads)].result


\* ------------------------------------------------------------ C29

\* the blob URLs of p that were created and are not revoked
Unrevoked(p) == {b \in 1 .. Len(p.blobs) : ~p.blobs[b].revoked}

\* since blob URL b of p was created, media has changed or the panel was
\* unmounted
Outlived(p, b) ==
  \/ p.changes > p.blobs[b].changes
  \/ p.blobs[b].mounted /\ ~p.mounted

\* C29: at most one blob URL created by the panel is un-revoked at any
\* time, and every blob URL it created is revoked no later than the next
\* change of media or the unmount, also when loads overlap
C29_BlobUrlsRevoked ==
  /\ Cardinality(Unrevoked(mp)) <= 1
  /\ \A b \in 1 .. Len(mp.blobs) : Outlived(mp, b) => mp.blobs[b].revoked


\* ------------------------------------------------------------ C30

\* the puts call c issued at a part name
PartPuts(c) ==
  {k \in IssuedOp(st[c].ops, "put") : st[c].ops[k].path # st[c].base}

\* the work of call c is bounded: every put goes to the base name or to one
\* of the N part names (the chunk loop runs at most N times), every path is
\* put at most MAX_RETRIES times, and at most N downloads are issued
BoundedWork(c) ==
  LET n == IF Large(c) THEN PartsOf(st[c].size) ELSE 0 IN
    /\ \A k \in PartPuts(c) :
         \E i \in 0 .. n - 1 : st[c].ops[k].path = PartName(c, i)
    /\ \A k \in IssuedOp(st[c].ops, "put") :
         Cardinality(Issued(st[c].ops, "put", st[c].ops[k].path)) <= MAX_RETRIES
    /\ Cardinality(IssuedOp(st[c].ops, "download")) <= n

\* C30: when every storage and metadata call returns in the end, every
\* uploadMediaFile call ends, resolved or rejected: the chunk loop runs at
\* most N times, every retry loop at most three times, and the merge loop
\* issues at most N downloads
C30_UploadTerminates ==
  /\ [](\A c \in Made : BoundedWork(c))
  /\ \A c \in Calls : (st[c].pc # "idle") ~> (st[c].pc = "done")

\* a call has ended after a put was tried three times and after the merge
\* loop downloaded all N parts
C30_Witness ==
  \E c \in Made :
    /\ st[c].pc = "done" /\ Large(c)
    /\ Cardinality(IssuedOp(st[c].ops, "download")) = PartsOf(st[c].size)
    /\ \E k \in IssuedOp(st[c].ops, "put") :
         Cardinality(Issued(st[c].ops, "put", st[c].ops[k].path)) = MAX_RETRIES

====
